---- MODULE Spec2Model ----
(***************************************************************************)
(* Article #1 discovery and comparison-cohort collection of the Springer   *)
(* client (src/HISTOGRAMS/clients/springer_client.py), driven the way      *)
(* download_articles_optimized_for_year (src/main_article_info_downloader  *)
(* .py) drives it: locate Article #1 of one journal-year, then collect the *)
(* comparison cohort from the locator's cache.                             *)
(*                                                                         *)
(* Spec follows one journal-year window by window, SpecInaugural the       *)
(* locator alone on the first year of a journal, SpecFetcher the page      *)
(* fetcher and the page loop of one search request by request, SpecDriver  *)
(* the journal and year loops of process_multiple_journals and             *)
(* process_journal_years.                                                  *)
(*                                                                         *)
(* A date string "YYYY-MM-DD" is modelled by the number YYYYMMDD: the      *)
(* strings are zero padded, so their lexicographic order (which the code   *)
(* compares them by) is the numeric order of these keys.  A missing        *)
(* publication_date (None, or the '' default of dict.get) is NoDate, which *)
(* is below every date and equal to none.                                  *)
(***************************************************************************)
EXTENDS Integers, Sequences, FiniteSets, TLC

\* ------------------------------------------------------------ bounds
MaxRecords == 2        \* records the source holds for the journal-year
MaxMinArticles == 3    \* largest min_articles a collect call is given
batch_size == 1        \* page size of the paginator (SPRINGER_BATCH_SIZE, scaled down)

\* The journal-years processed: <<year, start_month, start_day>>.  A leap and
\* a common regular year, and an inaugural year with a configured start date.
JournalYears == {<<2020, 1, 1>>, <<2021, 1, 1>>, <<2021, 12, 27>>}

\* Days (month, day) on which the source may hold a record.
RecordDays ==
    {<<1, 1>>, <<1, 2>>, <<1, 19>>, <<2, 20>>, <<12, 28>>, <<12, 31>>}

\* ------------------------------------------------------------ calendar
NoDate == 0

isleap(y) == (y % 4 = 0) /\ ((y % 100 # 0) \/ (y % 400 = 0))

\* calendar.monthrange(year, month)[1]
monthrange(y, m) ==
    IF m = 2 THEN (IF isleap(y) THEN 29 ELSE 28)
    ELSE IF m \in {4, 6, 9, 11} THEN 30 ELSE 31

\* f"{year:04d}-{month:02d}-{day:02d}"
DateStr(y, m, d) == y * 10000 + m * 100 + d

\* map(int, target_date.split('-'))
year_val(date) == date \div 10000
month_val(date) == (date \div 100) % 100
day_val(date) == date % 100

RECURSIVE DaysBefore(_, _)
DaysBefore(y, m) == IF m <= 1 THEN 0 ELSE DaysBefore(y, m - 1) + monthrange(y, m - 1)

DaysInYear(y) == DaysBefore(y, 13)

\* datetime(y, m, d) as the day number within year y (1 = January 1)
ToOrdinal(y, m, d) == DaysBefore(y, m) + d

RECURSIVE MonthOfOrdinal(_, _, _)
MonthOfOrdinal(y, n, m) ==
    IF n <= DaysBefore(y, m + 1) THEN m ELSE MonthOfOrdinal(y, n, m + 1)

\* strftime("%Y-%m-%d") of day number n of year y (1 <= n <= DaysInYear(y))
OrdinalStr(y, n) ==
    LET m == MonthOfOrdinal(y, n, 1) IN DateStr(y, m, n - DaysBefore(y, m))

\* ------------------------------------------------------------ records
\* An article dict as _parse_jats_xml builds it.  online is the date the
\* source files the record under (what the window query filters on); it is
\* not a key of the dict and no operation of the client reads it.
None == [doi |-> 0, article_number |-> "", publication_date |-> NoDate, online |-> NoDate]

IsNumber1(a) == a.article_number = "1"
HasNumber1(articles) == \E i \in 1..Len(articles) : IsNumber1(articles[i])

\* for article in articles: if article.get('article_number') == '1': return article
RECURSIVE FirstNumber1(_)
FirstNumber1(articles) ==
    IF articles = <<>> THEN None
    ELSE IF IsNumber1(Head(articles)) THEN Head(articles)
    ELSE FirstNumber1(Tail(articles))

Min(a, b) == IF a <= b THEN a ELSE b
Max(a, b) == IF a >= b THEN a ELSE b

\* ------------------------------------------------------------ state
VARIABLES
    year,              \* the journal-year processed
    start_month,       \* configured start date of the journal in that year
    start_day,
    catalog,           \* the source: the records it holds, in its answer order
    pc,                \* position of the locator / collector
    idx,               \* loop index: week 1..6, month 3..12
    current_month,     \* day-by-day and week-by-week loop position
    current_day,
    cached_articles,   \* the locator's cache
    article_1,         \* the locator's result
    reference_date,
    probes,            \* log: the windows the locator submitted, with outcome
    fetched,           \* log: concatenation of the results of those windows
    min_articles,      \* the collector's arguments and locals
    all_articles,
    articles_on_target_day,
    end_search_date,
    calls              \* log: the windows the collector submitted

\* The page fetcher and the paginator, request by request.
VARIABLES
    api_key_openaccess, \* configuration: the open-access key (the meta key if none is set)
    is_open_access,     \* the journal's flag, passed to every search
    use_openaccess,     \* SpringerClient.use_openaccess
    fpc,                \* "idle": no client; "ready": between searches; "paging": in the page loop
    journal_no,         \* journals started so far in this process run
    window_no,          \* searches started so far with this client
    window,             \* what the source holds for the window being searched
    endpoint,           \* locals of the search: endpoint, params, all_articles
    params,
    window_articles,
    requests,           \* log: the HTTP requests of the current search
    switched            \* a 429 has switched the process to the meta endpoint

\* The loops of process_multiple_journals / process_journal_years.
VARIABLES
    journal_keys,       \* arguments of process_multiple_journals
    years,
    dpc,                \* "journals": between journals; "years": in the year loop; "exit"
    journal_pos,        \* position in journal_keys
    remaining_years,    \* what the year loop has still to iterate over
    results,            \* process_journal_years' results
    overall_results,    \* process_multiple_journals' overall_results
    attempted           \* log: the years attempted for the current journal, with outcome

\* CrossrefJournalClient._collect_date_range and the _make_request it calls.
VARIABLES
    cpc,                \* "idle"; "paging": in the while loop; "returned"
    offset,             \* offset
    crossref_articles,  \* len(articles)
    page_requests,      \* log: _make_request calls of the current window
    last_request        \* log: the last _make_request call and what it brought

FetcherVars == <<api_key_openaccess, is_open_access, use_openaccess, fpc, journal_no, window_no,
                 window, endpoint, params, window_articles, requests, switched>>
DriverVars == <<journal_keys, years, dpc, journal_pos, remaining_years, results,
                overall_results, attempted>>
CrossrefVars == <<cpc, offset, crossref_articles, page_requests, last_request>>

vars == <<year, start_month, start_day, catalog, pc, idx, current_month, current_day,
          cached_articles, article_1, reference_date, probes, fetched,
          min_articles, all_articles, articles_on_target_day, end_search_date, calls,
          FetcherVars, DriverVars, CrossrefVars>>

\* ------------------------------------------------------------ source
ArticleNumbers == {"1", "2"}

\* The journal-year's records at the source, newest first ('order': 'desc').
\* The DOI of a record is its position, so DOIs are distinct.
Catalogs(y) ==
    UNION {
        { [i \in 1..n |->
              [doi |-> i,
               article_number |-> f[i][2],
               publication_date |-> IF f[i][3] THEN DateStr(y, f[i][1][1], f[i][1][2]) ELSE NoDate,
               online |-> DateStr(y, f[i][1][1], f[i][1][2])]] :
          f \in { g \in [1..n -> RecordDays \X ArticleNumbers \X BOOLEAN] :
                    \A i \in 1..(n - 1) :
                        DateStr(y, g[i][1][1], g[i][1][2]) >= DateStr(y, g[i + 1][1][1], g[i + 1][1][2]) } }
        : n \in 0..MaxRecords }

\* What the source holds for the inclusive window [start_date, end_date].
InWindow(start_date, end_date) ==
    SelectSeq(catalog, LAMBDA a : start_date <= a.online /\ a.online <= end_date)

\* The page at start position s with page size p ('s': start_pos, 'p': batch_size).
Page(recs, start_pos) ==
    SubSeq(recs, start_pos, Min(Len(recs), start_pos + batch_size - 1))

\* A page request of a window may fail (_make_request returns None); failing is
\* the number of the request that does (1 = the first page), 0 for none.
Failures == 0..(MaxRecords \div batch_size + 1)

\* The while True loop of search_articles_by_date and
\* search_articles_by_date_range_str.
RECURSIVE Paginate(_, _, _, _)
Paginate(recs, start_pos, request, failing) ==
    IF request = failing THEN <<>>
    ELSE LET articles == SelectSeq(Page(recs, start_pos), LAMBDA e : e.doi # 0) IN
         IF articles = <<>> THEN <<>>
         ELSE IF Len(articles) < batch_size THEN articles
         ELSE articles \o Paginate(recs, start_pos + batch_size, request + 1, failing)

\* (variant: ascending order)
query_order_Ascending == "asc"

\* 'sort': 'date', 'order': 'desc'
query_order == "desc"

\* params of search_articles_by_date_range_str:
\* q = ... onlinedatefrom:{start_date} AND onlinedateto:{end_date} ...
range_params(start_date, end_date) ==
    [field |-> "onlinedate", datefrom |-> start_date, dateto |-> end_date,
     sort |-> "date", order |-> query_order]

\* params of search_articles_by_date:
\* q = ... datefrom:{query_date} AND dateto:{query_date} ...
date_params(y, m, d) ==
    [field |-> "date", datefrom |-> DateStr(y, m, d), dateto |-> DateStr(y, m, d),
     sort |-> "date", order |-> query_order]

RECURSIVE Reverse(_)
Reverse(s) == IF s = <<>> THEN <<>> ELSE Append(Reverse(Tail(s)), Head(s))

\* The source's answer to a query: the records filed within the inclusive
\* range, newest first or oldest first as the query asks.
Answer(query) ==
    IF query.order = "desc"
    THEN InWindow(query.datefrom, query.dateto)
    ELSE Reverse(InWindow(query.datefrom, query.dateto))

search_articles_by_date_range_str(start_date, end_date, failing) ==
    Paginate(Answer(range_params(start_date, end_date)), 1, 1, failing)

search_articles_by_date(y, m, d, failing) ==
    Paginate(Answer(date_params(y, m, d)), 1, 1, failing)

search_articles_by_date_range(y, sm, sd, em, ed, failing) ==
    search_articles_by_date_range_str(DateStr(y, sm, sd), DateStr(y, em, ed), failing)

MonthEnd(y, m) == IF m = 12 THEN DateStr(y, 12, 31) ELSE DateStr(y, m, monthrange(y, m))

search_articles_by_month(y, m, failing) ==
    search_articles_by_date_range_str(DateStr(y, m, 1), MonthEnd(y, m), failing)

\* ------------------------------------------------------------ initial state
\* The page fetcher and the driver loops while only the locator and the
\* collector are followed.
FetcherIdle ==
    /\ api_key_openaccess = ""
    /\ is_open_access = FALSE
    /\ use_openaccess = TRUE
    /\ fpc = "idle"
    /\ journal_no = 0
    /\ window_no = 0
    /\ window = <<>>
    /\ endpoint = ""
    /\ params = [api_key |-> "", s |-> 0]
    /\ window_articles = <<>>
    /\ requests = <<>>
    /\ switched = FALSE

DriverIdle ==
    /\ journal_keys = <<>>
    /\ years = <<>>
    /\ dpc = "idle"
    /\ journal_pos = 0
    /\ remaining_years = <<>>
    /\ results = <<>>
    /\ overall_results = <<>>
    /\ attempted = <<>>

NoRequest == [offset |-> -1, attempts |-> 0, data |-> "", works |-> 0]

CrossrefIdle ==
    /\ cpc = "idle"
    /\ offset = 0
    /\ crossref_articles = 0
    /\ page_requests = 0
    /\ last_request = NoRequest

\* find_article_number_1_with_cache is entered.
LocatorStart ==
    /\ pc = "locate"
    /\ idx = 0
    /\ current_month = 0
    /\ current_day = 0
    /\ cached_articles = <<>>
    /\ article_1 = None
    /\ reference_date = NoDate
    /\ probes = <<>>
    /\ fetched = <<>>
    /\ min_articles = 0
    /\ all_articles = <<>>
    /\ articles_on_target_day = 0
    /\ end_search_date = NoDate
    /\ calls = <<>>

Init ==
    /\ \E jy \in JournalYears : year = jy[1] /\ start_month = jy[2] /\ start_day = jy[3]
    /\ catalog \in Catalogs(year)
    /\ LocatorStart
    /\ FetcherIdle
    /\ DriverIdle
    /\ CrossrefIdle

\* ------------------------------------------------------------ locator
CollectorVars == <<min_articles, all_articles, articles_on_target_day, end_search_date, calls>>
InputVars == <<year, start_month, start_day, catalog>>

\* Bookkeeping of one window probe of the locator.
Logged(start_date, end_date, articles) ==
    /\ probes' = Append(probes, [start_date |-> start_date, end_date |-> end_date,
                                 found |-> HasNumber1(articles)])
    /\ fetched' = fetched \o articles

\* return article, date, cached_articles
ReturnFound(article, date) ==
    /\ article_1' = article
    /\ reference_date' = date
    /\ pc' = "located"

\* return None, None, cached_articles
ReturnNotFound ==
    /\ article_1' = None
    /\ reference_date' = NoDate
    /\ pc' = "located"

RegularYear == start_month = 1 /\ start_day = 1

\* (variant: the Jan 2 hit is cached but the search goes on)
ProbeJan2_NoReturn(failing) ==
    /\ pc = "locate"
    /\ RegularYear
    /\ LET jan_2_articles == search_articles_by_date(year, 1, 2, failing) IN
        /\ cached_articles' = cached_articles \o jan_2_articles
        /\ Logged(DateStr(year, 1, 2), DateStr(year, 1, 2), jan_2_articles)
        /\ pc' = "jan1"
        /\ UNCHANGED <<article_1, reference_date>>
    /\ UNCHANGED <<InputVars, FetcherVars, DriverVars, CrossrefVars, idx, current_month, current_day, CollectorVars>>

\* Step 1: January 2nd.
ProbeJan2(failing) ==
    /\ pc = "locate"
    /\ RegularYear
    /\ LET jan_2_articles == search_articles_by_date(year, 1, 2, failing) IN
        /\ cached_articles' = cached_articles \o jan_2_articles
        /\ Logged(DateStr(year, 1, 2), DateStr(year, 1, 2), jan_2_articles)
        /\ IF HasNumber1(jan_2_articles)
           THEN ReturnFound(FirstNumber1(jan_2_articles), DateStr(year, 1, 2))
           ELSE pc' = "jan1" /\ UNCHANGED <<article_1, reference_date>>
    /\ UNCHANGED <<InputVars, FetcherVars, DriverVars, CrossrefVars, idx, current_month, current_day, CollectorVars>>

\* Step 2: January 1st.
ProbeJan1(failing) ==
    /\ pc = "jan1"
    /\ LET jan_1_articles == search_articles_by_date(year, 1, 1, failing) IN
        /\ cached_articles' = cached_articles \o jan_1_articles
        /\ Logged(DateStr(year, 1, 1), DateStr(year, 1, 1), jan_1_articles)
        /\ IF HasNumber1(jan_1_articles)
           THEN ReturnFound(FirstNumber1(jan_1_articles), DateStr(year, 1, 1)) /\ idx' = idx
           ELSE pc' = "weekly" /\ idx' = 1 /\ UNCHANGED <<article_1, reference_date>>
    /\ UNCHANGED <<InputVars, FetcherVars, DriverVars, CrossrefVars, current_month, current_day, CollectorVars>>

\* (variant: weeks 2 and 3 listed in the wrong order)
weekly_searches_Swapped ==
    << <<1, 3, 9>>, <<1, 17, 23>>, <<1, 10, 16>>, <<1, 24, 31>>, <<2, 1, 7>>, <<2, 8, 14>> >>

\* (variant: a seventh weekly window)
weekly_searches_Seven ==
    << <<1, 3, 9>>, <<1, 10, 16>>, <<1, 17, 23>>, <<1, 24, 31>>, <<2, 1, 7>>, <<2, 8, 14>>,
       <<2, 15, 21>> >>

weekly_searches ==
    << <<1, 3, 9>>, <<1, 10, 16>>, <<1, 17, 23>>, <<1, 24, 31>>, <<2, 1, 7>>, <<2, 8, 14>> >>

\* Step 3: one iteration of the loop over weekly_searches.
ProbeWeek(failing) ==
    /\ pc = "weekly"
    /\ LET month == weekly_searches[idx][1]
           first_day == weekly_searches[idx][2]
           actual_end_day == Min(weekly_searches[idx][3], monthrange(year, month))
           week_articles ==
               search_articles_by_date_range(year, month, first_day, month, actual_end_day, failing)
       IN
        /\ cached_articles' = cached_articles \o week_articles
        /\ Logged(DateStr(year, month, first_day), DateStr(year, month, actual_end_day), week_articles)
        /\ IF HasNumber1(week_articles)
           THEN ReturnFound(FirstNumber1(week_articles),
                            FirstNumber1(week_articles).publication_date) /\ idx' = idx
           ELSE /\ UNCHANGED <<article_1, reference_date>>
                /\ IF idx < Len(weekly_searches)
                   THEN pc' = pc /\ idx' = idx + 1
                   ELSE pc' = "february" /\ idx' = idx
    /\ UNCHANGED <<InputVars, FetcherVars, DriverVars, CrossrefVars, current_month, current_day, CollectorVars>>

\* for month in range(3, 13)
first_month == 3
\* (variant: range(3, 12))
last_month_Eleven == 12 - 1
last_month == 12

\* Step 4, first part: February from the 15th on (the guard days_in_feb > 14
\* of the code holds in every year).
ProbeFebruaryRemainder(failing) ==
    /\ pc = "february"
    /\ LET days_in_feb == monthrange(year, 2)
           feb_remainder_articles ==
               search_articles_by_date_range(year, 2, 15, 2, days_in_feb, failing)
       IN
        /\ cached_articles' = cached_articles \o feb_remainder_articles
        /\ Logged(DateStr(year, 2, 15), DateStr(year, 2, days_in_feb), feb_remainder_articles)
        /\ IF HasNumber1(feb_remainder_articles)
           THEN ReturnFound(FirstNumber1(feb_remainder_articles),
                            FirstNumber1(feb_remainder_articles).publication_date) /\ idx' = idx
           ELSE pc' = "monthly" /\ idx' = first_month /\ UNCHANGED <<article_1, reference_date>>
    /\ UNCHANGED <<InputVars, FetcherVars, DriverVars, CrossrefVars, current_month, current_day, CollectorVars>>

\* Step 4, second part: one iteration of for month in range(3, 13).
ProbeMonth(failing) ==
    /\ pc = "monthly"
    /\ LET month_articles == search_articles_by_month(year, idx, failing) IN
        /\ cached_articles' = cached_articles \o month_articles
        /\ Logged(DateStr(year, idx, 1), MonthEnd(year, idx), month_articles)
        /\ IF HasNumber1(month_articles)
           THEN ReturnFound(FirstNumber1(month_articles),
                            FirstNumber1(month_articles).publication_date) /\ idx' = idx
           ELSE IF idx < last_month
                THEN pc' = pc /\ idx' = idx + 1 /\ UNCHANGED <<article_1, reference_date>>
                ELSE ReturnNotFound /\ idx' = idx
    /\ UNCHANGED <<InputVars, FetcherVars, DriverVars, CrossrefVars, current_month, current_day, CollectorVars>>

\* max_day of the day-by-day scan: 31 for January, 28 for any other month
\* unless it is February (leap rule) or a 30-day month.
max_day(y, m) ==
    IF m = 2 THEN (IF isleap(y) THEN 29 ELSE 28)
    ELSE IF m \in {4, 6, 9, 11} THEN 30
    ELSE IF m = 1 THEN 31 ELSE 28

\* Where the nested while loops of _find_article_1_day_by_day probe next,
\* entered at (m, d); month 13 when the loops are left.
RECURSIVE DayLoop(_, _)
DayLoop(m, d) ==
    IF m > 12 THEN <<13, 1>>
    ELSE IF d <= max_day(year, m) THEN <<m, d>>
    ELSE IF start_month = 1 /\ start_day = 1 /\ m + 1 > 1 THEN <<13, 1>>
    ELSE DayLoop(m + 1, 1)

\* First year of the journal: the configured start date, cached.
ProbeStartDate(failing) ==
    /\ pc = "locate"
    /\ ~RegularYear
    /\ LET articles == search_articles_by_date(year, start_month, start_day, failing)
           date_str == DateStr(year, start_month, start_day)
           pos == DayLoop(start_month, start_day)
       IN
        /\ cached_articles' = cached_articles \o articles
        /\ Logged(date_str, date_str, articles)
        /\ IF HasNumber1(articles)
           THEN ReturnFound(FirstNumber1(articles), date_str)
                /\ UNCHANGED <<current_month, current_day>>
           ELSE IF pos[1] > 12
                THEN ReturnNotFound /\ UNCHANGED <<current_month, current_day>>
                ELSE /\ pc' = "daybyday"
                     /\ current_month' = pos[1]
                     /\ current_day' = pos[2]
                     /\ UNCHANGED <<article_1, reference_date>>
    /\ UNCHANGED <<InputVars, FetcherVars, DriverVars, CrossrefVars, idx, CollectorVars>>

\* One iteration of the inner loop of _find_article_1_day_by_day; its
\* results are returned to find_article_number_1_with_cache as
\* (article, date) only.
ProbeDayByDay(failing) ==
    /\ pc = "daybyday"
    /\ LET articles == search_articles_by_date(year, current_month, current_day, failing)
           date_str == DateStr(year, current_month, current_day)
           pos == DayLoop(current_month, current_day + 1)
       IN
        /\ Logged(date_str, date_str, articles)
        /\ IF HasNumber1(articles)
           THEN ReturnFound(FirstNumber1(articles), date_str)
                /\ UNCHANGED <<current_month, current_day>>
           ELSE IF pos[1] > 12
                THEN ReturnNotFound /\ UNCHANGED <<current_month, current_day>>
                ELSE /\ pc' = pc
                     /\ current_month' = pos[1]
                     /\ current_day' = pos[2]
                     /\ UNCHANGED <<article_1, reference_date>>
    /\ UNCHANGED <<InputVars, FetcherVars, DriverVars, CrossrefVars, idx, cached_articles, CollectorVars>>

\* ------------------------------------------------------------ collector
LocatorVars == <<idx, cached_articles, article_1, reference_date, probes, fetched>>

\* (variant: the comparison reversed)
comparison_candidates_Reversed(cached, target_date) ==
    SelectSeq(cached, LAMBDA a : a.publication_date <= target_date)

\* [article for article in cached_articles
\*  if article.get('publication_date', '') >= target_date]
comparison_candidates(cached, target_date) ==
    SelectSeq(cached, LAMBDA a : a.publication_date >= target_date)

\* [a for a in all_articles if a.get('publication_date') == target_date]
same_day_articles(articles, target_date) ==
    SelectSeq(articles, LAMBDA a : a.publication_date = target_date)

\* (variant: the records numbered "1" are kept)
NotNumber1_KeepAll(articles) == articles

\* [a for a in day_articles if a.get('article_number') != '1']
NotNumber1(articles) == SelectSeq(articles, LAMBDA a : a.article_number # "1")

\* Bookkeeping of one paginator call of the collector: its window, the
\* number of articles held before it and the number it returned.
Called(kind, start_date, end_date, articles) ==
    calls' = Append(calls, [kind |-> kind, start_date |-> start_date, end_date |-> end_date,
                            before |-> Len(all_articles), got |-> Len(articles)])

\* (variant: the loops do not look at the size of the cohort)
RECURSIVE WeekLoop_NoStop(_, _, _, _)
WeekLoop_NoStop(m, d, n, min) ==
    IF m > 12 THEN <<13, 1>>
    ELSE IF d <= monthrange(year_val(reference_date), m) THEN <<m, d>>
    ELSE WeekLoop_NoStop(m + 1, 1, n, min)

\* Where the nested while loops of the week-by-week fallback fetch next,
\* entered at (m, d) holding n articles; month 13 when the loops are left.
RECURSIVE WeekLoop(_, _, _, _)
WeekLoop(m, d, n, min) ==
    IF m > 12 \/ n >= min THEN <<13, 1>>
    ELSE IF d <= monthrange(year_val(reference_date), m) THEN <<m, d>>
    ELSE WeekLoop(m + 1, 1, n, min)

\* (variant: the cached candidates cut to the minimum)
cached_result_Truncated(candidates, min) == SubSeq(candidates, 1, min)

\* return comparison_candidates: all of them, not just the minimum
cached_result(candidates, min) == candidates

\* download_articles_optimized_for_year: no reference date, no collection.
SkipCollect ==
    /\ pc = "located"
    /\ reference_date = NoDate
    /\ pc' = "done"
    /\ UNCHANGED <<InputVars, FetcherVars, DriverVars, CrossrefVars, LocatorVars, current_month, current_day, CollectorVars>>

\* collect_comparison_articles up to its return or to the first fetch of
\* _expand_comparison_articles_from_date.
Collect(min) ==
    /\ pc = "located"
    /\ reference_date # NoDate
    /\ min_articles' = min
    /\ LET candidates == comparison_candidates(cached_articles, reference_date)
           existing == IF cached_articles # <<>> THEN candidates ELSE <<>>
           same_day == same_day_articles(existing, reference_date)
       IN
        IF cached_articles # <<>> /\ Len(candidates) >= min
        THEN /\ all_articles' = cached_result(candidates, min)
             /\ pc' = "returned"
             /\ UNCHANGED articles_on_target_day
        ELSE /\ all_articles' = existing
             /\ articles_on_target_day' = Len(same_day)
             /\ pc' = IF same_day = <<>> THEN "targetday" ELSE "estimate"
    /\ UNCHANGED <<InputVars, FetcherVars, DriverVars, CrossrefVars, LocatorVars, current_month, current_day, end_search_date, calls>>

\* The fetch of the target date itself, and the choice of the strategy.
ExpandTargetDay(failing) ==
    /\ pc = "targetday"
    /\ LET y == year_val(reference_date)
           m == month_val(reference_date)
           d == day_val(reference_date)
           day_articles == NotNumber1(search_articles_by_date(y, m, d, failing))
           pos == WeekLoop(m, d + 1, Len(all_articles) + Len(day_articles), min_articles)
       IN
        /\ all_articles' = all_articles \o day_articles
        /\ articles_on_target_day' = Len(day_articles)
        /\ Called("target_day", reference_date, reference_date, day_articles)
        /\ IF Len(day_articles) > 0
           THEN pc' = "estimate" /\ UNCHANGED <<current_month, current_day>>
           ELSE IF pos[1] > 12
                THEN pc' = "returned" /\ UNCHANGED <<current_month, current_day>>
                ELSE pc' = "weekscan" /\ current_month' = pos[1] /\ current_day' = pos[2]
    /\ UNCHANGED <<InputVars, FetcherVars, DriverVars, CrossrefVars, LocatorVars, min_articles, end_search_date>>

\* estimated_days_needed
estimated_days_needed(articles_needed, on_target_day) ==
    (IF articles_needed > 0
     THEN Max(30, (articles_needed + on_target_day - 1) \div on_target_day)
     ELSE 30) + 1

\* (variant: the end of the estimated range not clamped)
estimated_end_Unclamped(y, start_search, days) == start_search + days - 1

\* end_search_date = start_search_date + timedelta(days=estimated_days_needed - 1),
\* set to December 31 when it falls in the next year.
estimated_end(y, start_search, days) ==
    IF start_search + days - 1 > DaysInYear(y)
    THEN ToOrdinal(y, 12, 31)
    ELSE start_search + days - 1

\* (variant: the rest of the year taken from the end of the estimated range)
next_start_date_SameDay(end_date) ==
    ToOrdinal(year_val(end_date), month_val(end_date), day_val(end_date))

\* next_start_date = end_search_date + timedelta(days=1)
next_start_date(end_date) ==
    ToOrdinal(year_val(end_date), month_val(end_date), day_val(end_date)) + 1

\* (variant: six-day windows)
week_end_SixDays(y, m, d) == Min(d + 5, monthrange(y, m))

\* week_end = min(current_day + 6, days_in_month)
week_end(y, m, d) == Min(d + 6, monthrange(y, m))

\* The estimated range; datetime(year_val, month_val, day_val + 1) raises
\* ValueError when the target date is the last day of its month.
ExpandEstimated(failing) ==
    /\ pc = "estimate"
    /\ LET y == year_val(reference_date)
           m == month_val(reference_date)
           d == day_val(reference_date)
           articles_needed == Max(0, min_articles - Len(all_articles))
           days == estimated_days_needed(articles_needed, articles_on_target_day)
           start_search == ToOrdinal(y, m, d + 1)
           end_search == estimated_end(y, start_search, days)
           estimated_articles ==
               search_articles_by_date_range_str(OrdinalStr(y, start_search),
                                                 OrdinalStr(y, end_search), failing)
       IN
        IF d + 1 > monthrange(y, m)
        THEN /\ pc' = "raised"
             /\ UNCHANGED <<all_articles, end_search_date, calls>>
        ELSE /\ all_articles' = all_articles \o estimated_articles
             /\ end_search_date' = OrdinalStr(y, end_search)
             /\ Called("estimated", OrdinalStr(y, start_search), OrdinalStr(y, end_search),
                    estimated_articles)
             /\ pc' = IF Len(all_articles) + Len(estimated_articles) >= min_articles
                      THEN "returned"
                      ELSE IF end_search + 1 <= DaysInYear(y) THEN "restofyear"
                      ELSE "returned"
    /\ UNCHANGED <<InputVars, FetcherVars, DriverVars, CrossrefVars, LocatorVars, current_month, current_day,
                   min_articles, articles_on_target_day>>

\* From the day after the estimated range to December 31.
ExpandRestOfYear(failing) ==
    /\ pc = "restofyear"
    /\ LET y == year_val(reference_date)
           next_start == next_start_date(end_search_date)
           remaining_articles ==
               search_articles_by_date_range_str(OrdinalStr(y, next_start),
                                                 DateStr(y, 12, 31), failing)
       IN
        /\ all_articles' = all_articles \o remaining_articles
        /\ Called("rest_of_year", OrdinalStr(y, next_start), DateStr(y, 12, 31),
                  remaining_articles)
        /\ pc' = "returned"
    /\ UNCHANGED <<InputVars, FetcherVars, DriverVars, CrossrefVars, LocatorVars, current_month, current_day,
                   min_articles, articles_on_target_day, end_search_date>>

\* One iteration of the inner loop of the week-by-week fallback.
ExpandWeek(failing) ==
    /\ pc = "weekscan"
    /\ LET y == year_val(reference_date)
           last_day == week_end(y, current_month, current_day)
           week_articles ==
               search_articles_by_date_range(y, current_month, current_day,
                                             current_month, last_day, failing)
           pos == WeekLoop(current_month, last_day + 1,
                           Len(all_articles) + Len(week_articles), min_articles)
       IN
        /\ all_articles' = all_articles \o week_articles
        /\ Called("week", DateStr(y, current_month, current_day),
                  DateStr(y, current_month, last_day), week_articles)
        /\ IF pos[1] > 12
           THEN pc' = "returned" /\ UNCHANGED <<current_month, current_day>>
           ELSE pc' = pc /\ current_month' = pos[1] /\ current_day' = pos[2]
    /\ UNCHANGED <<InputVars, FetcherVars, DriverVars, CrossrefVars, LocatorVars, min_articles, articles_on_target_day, end_search_date>>

MinArticles == 1..MaxMinArticles

Next ==
    \/ \E failing \in Failures : ProbeJan2(failing)
    \/ \E failing \in Failures : ProbeJan1(failing)
    \/ \E failing \in Failures : ProbeWeek(failing)
    \/ \E failing \in Failures : ProbeFebruaryRemainder(failing)
    \/ \E failing \in Failures : ProbeMonth(failing)
    \/ \E failing \in Failures : ProbeStartDate(failing)
    \/ \E failing \in Failures : ProbeDayByDay(failing)
    \/ SkipCollect
    \/ \E min \in MinArticles : Collect(min)
    \/ \E failing \in Failures : ExpandTargetDay(failing)
    \/ \E failing \in Failures : ExpandEstimated(failing)
    \/ \E failing \in Failures : ExpandRestOfYear(failing)
    \/ \E failing \in Failures : ExpandWeek(failing)

Spec == Init /\ [][Next]_vars

\* ------------------------------------------------------------ inaugural years
\* The start dates config.py gives Nature Communications and Scientific
\* Reports: <<start_year, start_month, start_day>>.
InauguralYears == {<<2010, 4, 12>>, <<2011, 6, 14>>}

\* Sources holding at most one record.
InauguralCatalogs(y) == {c \in Catalogs(y) : Len(c) <= 1}

InitInaugural ==
    /\ \E jy \in InauguralYears : year = jy[1] /\ start_month = jy[2] /\ start_day = jy[3]
    /\ catalog \in InauguralCatalogs(year)
    /\ LocatorStart
    /\ FetcherIdle
    /\ DriverIdle
    /\ CrossrefIdle

\* find_article_number_1_with_cache alone, on the first year of a journal.
NextInaugural ==
    \/ \E failing \in Failures : ProbeStartDate(failing)
    \/ \E failing \in Failures : ProbeDayByDay(failing)

SpecInaugural == InitInaugural /\ [][NextInaugural]_vars

\* ------------------------------------------------------------ regular years, every request answered
\* Sources whose entries may lack a DOI (_parse_jats_xml keeps only entries
\* with one); a DOI-bearing record has its position as DOI.
EntryCatalogs(y) ==
    UNION {
        { [i \in 1..n |->
              [doi |-> IF f[i][3] THEN i ELSE 0,
               article_number |-> f[i][2],
               publication_date |-> DateStr(y, f[i][1][1], f[i][1][2]),
               online |-> DateStr(y, f[i][1][1], f[i][1][2])]] :
          f \in { g \in [1..n -> RecordDays \X ArticleNumbers \X BOOLEAN] :
                    \A i \in 1..(n - 1) :
                        DateStr(y, g[i][1][1], g[i][1][2]) >= DateStr(y, g[i + 1][1][1], g[i + 1][1][2]) } }
        : n \in 0..MaxRecords }

InitEntries ==
    /\ \E jy \in {j \in JournalYears : j[2] = 1 /\ j[3] = 1} :
           year = jy[1] /\ start_month = jy[2] /\ start_day = jy[3]
    /\ catalog \in EntryCatalogs(year)
    /\ LocatorStart
    /\ FetcherIdle
    /\ DriverIdle
    /\ CrossrefIdle

\* find_article_number_1_with_cache in a regular year when _make_request
\* never returns None.
NextEntries ==
    \/ ProbeJan2(0)
    \/ ProbeJan1(0)
    \/ ProbeWeek(0)
    \/ ProbeFebruaryRemainder(0)
    \/ ProbeMonth(0)

SpecEntries == InitEntries /\ [][NextEntries]_vars

\* ------------------------------------------------------------ page fetcher
LocatorCollectorVars ==
    <<year, start_month, start_day, catalog, pc, idx, current_month, current_day,
      cached_articles, article_1, reference_date, probes, fetched,
      min_articles, all_articles, articles_on_target_day, end_search_date, calls>>

MaxJournals == 2       \* clients created in one process run (one per journal)
MaxWindows == 2        \* searches made with one client
MaxEntries == 3        \* entries the source holds for one window
page_size == 2         \* self.batch_size in the page loop followed request by request

\* API_KEY_META, and what API_KEY_OPENACCESS or API_KEY_META may come to: a
\* key of its own, or the meta key.
api_key_meta == "meta_key"
ApiKeysOpenaccess == {"openaccess_key", "meta_key"}

\* What the server may answer to one GET: a page (well-formed or not), a
\* status other than 200, or no answer (requests raises).
Responses == {"200", "200_malformed", "404", "429", "500", "exception"}
ResponseSeqs == Responses \X Responses \X Responses

\* What the source may hold for a window, in its answer order: entries with a
\* DOI (their position) and an article number, and entries without a DOI
\* (doi 0).
EntryKinds == {"1", "2", "no_doi"}
Windows ==
    UNION { { [i \in 1..n |->
                 [doi |-> IF f[i] = "no_doi" THEN 0 ELSE i,
                  article_number |-> IF f[i] = "no_doi" THEN "2" ELSE f[i]]] :
              f \in [1..n -> EntryKinds] }
            : n \in 0..MaxEntries }

\* The page of the window at start position s ('s': start_pos, 'p': batch_size).
WindowPage(w, start_pos) == SubSeq(w, start_pos, Min(Len(w), start_pos + page_size - 1))

\* _parse_jats_xml: only articles with a DOI are kept; a body that does not
\* parse gives the empty list.
parse_jats_xml(content, page) ==
    IF content = "200_malformed" THEN <<>>
    ELSE SelectSeq(page, LAMBDA e : e.doi # 0)

\* _get_api_endpoint_and_key
get_api_endpoint_and_key(open_access, use_oa, key_oa) ==
    IF open_access /\ use_oa /\ key_oa # "" /\ key_oa # api_key_meta
    THEN <<"openaccess", key_oa>>
    ELSE <<"meta", api_key_meta>>

\* (variant: the exception of session.get is not caught)
request_exception_Propagates == "raise"

\* except requests.exceptions.RequestException / except Exception: return None
request_exception == "None"

\* _make_request(endpoint, params): the requests it sends, what it returns
\* ("None" or the body), and use_openaccess and params['api_key'] after it.
\* responses are the server's answers to the successive GETs.
RECURSIVE make_request(_, _, _, _)
make_request(ep, key, use_oa, responses) ==
    LET status == Head(responses)
        get == [endpoint |-> ep, api_key |-> key, status |-> status,
                use_openaccess |-> use_oa,
                slept |-> status \in {"200", "200_malformed"}]
        return(content) == [sent |-> <<get>>, content |-> content,
                            use_openaccess |-> use_oa, api_key |-> key]
    IN
    IF status \in {"200", "200_malformed"} THEN return(status)
    ELSE IF status = "404" THEN return("None")
    ELSE IF status = "429"
         THEN IF ep = "openaccess" /\ use_oa
              THEN LET retry == make_request("meta", api_key_meta, FALSE, Tail(responses)) IN
                   [retry EXCEPT !.sent = <<get>> \o @]
              ELSE return("None")
    ELSE IF status = "exception" THEN return(request_exception)
    ELSE return("None")

InitFetcher ==
    /\ api_key_openaccess \in ApiKeysOpenaccess
    /\ is_open_access = FALSE
    /\ use_openaccess = TRUE
    /\ fpc = "idle"
    /\ journal_no = 0
    /\ window_no = 0
    /\ window = <<>>
    /\ endpoint = ""
    /\ params = [api_key |-> "", s |-> 0]
    /\ window_articles = <<>>
    /\ requests = <<>>
    /\ switched = FALSE
    /\ year = 0 /\ start_month = 0 /\ start_day = 0 /\ catalog = <<>>
    /\ pc = "idle" /\ idx = 0 /\ current_month = 0 /\ current_day = 0
    /\ cached_articles = <<>> /\ article_1 = None /\ reference_date = NoDate
    /\ probes = <<>> /\ fetched = <<>>
    /\ min_articles = 0 /\ all_articles = <<>> /\ articles_on_target_day = 0
    /\ end_search_date = NoDate /\ calls = <<>>
    /\ DriverIdle
    /\ CrossrefIdle

\* process_journal_years: client = SpringerClient(), for a journal whose
\* is_open_access flag is open_access.
NewClient(open_access) ==
    /\ fpc \in {"idle", "ready"}
    /\ journal_no < MaxJournals
    /\ journal_no' = journal_no + 1
    /\ is_open_access' = open_access
    /\ use_openaccess' = TRUE
    /\ window_no' = 0
    /\ window' = <<>>
    /\ endpoint' = ""
    /\ params' = [api_key |-> "", s |-> 0]
    /\ window_articles' = <<>>
    /\ requests' = <<>>
    /\ fpc' = "ready"
    /\ UNCHANGED <<api_key_openaccess, switched, LocatorCollectorVars, DriverVars, CrossrefVars>>

\* search_articles_by_date / search_articles_by_date_range_str up to the
\* page loop, for a window of which the source holds w.
StartSearch(w) ==
    /\ fpc = "ready"
    /\ window_no < MaxWindows
    /\ window_no' = window_no + 1
    /\ window' = w
    /\ LET ek == get_api_endpoint_and_key(is_open_access, use_openaccess, api_key_openaccess) IN
        /\ endpoint' = ek[1]
        /\ params' = [api_key |-> ek[2], s |-> 1]
    /\ window_articles' = <<>>
    /\ requests' = <<>>
    /\ fpc' = "paging"
    /\ UNCHANGED <<api_key_openaccess, is_open_access, use_openaccess, journal_no, switched,
                   LocatorCollectorVars, DriverVars, CrossrefVars>>

\* One iteration of the while True loop: one _make_request call, the parse
\* of its body and the decision to go on.
\* (variant: the start position advances by one more than the page size)
next_start_pos_SkipsOne(start_pos) == start_pos + page_size + 1

\* start_pos += self.batch_size
next_start_pos(start_pos) == start_pos + page_size

FetchPage(responses) ==
    /\ fpc = "paging"
    /\ LET out == make_request(endpoint, params.api_key, use_openaccess, responses)
           call == IF requests = <<>> THEN 1 ELSE requests[Len(requests)].call + 1
           articles == parse_jats_xml(out.content, WindowPage(window, params.s))
           more == /\ out.content \notin {"None", "raise"}
                   /\ articles # <<>>
                   /\ Len(articles) >= page_size
       IN
        /\ requests' = requests \o
               [i \in 1..Len(out.sent) |->
                   [call |-> call, s |-> params.s,
                    after_switch |-> switched \/ i > 1,
                    endpoint |-> out.sent[i].endpoint, api_key |-> out.sent[i].api_key,
                    use_openaccess |-> out.sent[i].use_openaccess,
                    status |-> out.sent[i].status, slept |-> out.sent[i].slept]]
        /\ switched' = (switched \/ Len(out.sent) > 1)
        /\ use_openaccess' = out.use_openaccess
        /\ window_articles' =
               IF out.content \in {"None", "raise"} THEN window_articles
               ELSE window_articles \o articles
        /\ params' = [api_key |-> out.api_key,
                      s |-> IF more THEN next_start_pos(params.s) ELSE params.s]
        /\ fpc' = IF out.content = "raise" THEN "raised"
                  ELSE IF more THEN "paging" ELSE "ready"
    /\ UNCHANGED <<api_key_openaccess, is_open_access, journal_no, window_no, window, endpoint,
                   LocatorCollectorVars, DriverVars, CrossrefVars>>

NextFetcher ==
    \/ \E open_access \in BOOLEAN : NewClient(open_access)
    \/ \E w \in Windows : StartSearch(w)
    \/ \E responses \in ResponseSeqs : FetchPage(responses)

SpecFetcher == InitFetcher /\ [][NextFetcher]_vars

\* ------------------------------------------------------------ journal and year loops
\* MIN_ARTICLES_FOR_COMPARISON
MIN_ARTICLES_FOR_COMPARISON == 15

\* The arguments process_multiple_journals is called with.
JournalKeyLists ==
    {<<"nature_communications">>, <<"scientific_reports", "nature_communications">>}
YearLists == {<<>>, <<2020>>, <<2021, 2020>>, <<2020, 2021, 2020>>, <<2022, 2020, 2021>>}

\* What the processing of one year comes to: the pair (article_1_success,
\* comparison_success) returned by download_articles_optimized_for_year, or
\* an exception.
Outcomes == {"both", "article_1_only", "none", "raised"}

RECURSIVE insort(_, _)
insort(y, s) ==
    IF s = <<>> THEN <<y>>
    ELSE IF y <= Head(s) THEN <<y>> \o s
    ELSE <<Head(s)>> \o insort(y, Tail(s))

\* sorted(years)
RECURSIVE sorted(_)
sorted(s) == IF s = <<>> THEN <<>> ELSE insort(Head(s), sorted(Tail(s)))

\* (variant: the loop is left after its first iteration)
loop_rest_Break(remaining) == <<>>

\* for year in sorted(years): what is left after one iteration, whether
\* the iteration ended normally or in the except clause.
loop_rest(remaining) == Tail(remaining)

InitDriver ==
    /\ journal_keys \in JournalKeyLists
    /\ years \in YearLists
    /\ dpc = "journals"
    /\ journal_pos = 0
    /\ remaining_years = <<>>
    /\ results = <<>>
    /\ overall_results = [journals_processed |-> <<>>, journal_results |-> <<>>,
                          total_articles_downloaded |-> 0, total_errors |-> <<>>]
    /\ attempted = <<>>
    /\ year = 0 /\ start_month = 0 /\ start_day = 0 /\ catalog = <<>>
    /\ pc = "idle" /\ idx = 0 /\ current_month = 0 /\ current_day = 0
    /\ cached_articles = <<>> /\ article_1 = None /\ reference_date = NoDate
    /\ probes = <<>> /\ fetched = <<>>
    /\ min_articles = 0 /\ all_articles = <<>> /\ articles_on_target_day = 0
    /\ end_search_date = NoDate /\ calls = <<>>
    /\ FetcherIdle
    /\ CrossrefIdle

\* process_multiple_journals takes the next journal: process_journal_years up
\* to its year loop.  min(years) raises ValueError on an empty list, which
\* process_multiple_journals catches and records.
StartJournal ==
    /\ dpc = "journals"
    /\ journal_pos < Len(journal_keys)
    /\ journal_pos' = journal_pos + 1
    /\ attempted' = <<>>
    /\ IF years = <<>>
       THEN /\ overall_results' =
                   [overall_results EXCEPT
                       !.total_errors = Append(@, journal_keys[journal_pos + 1])]
            /\ UNCHANGED <<dpc, remaining_years, results>>
       ELSE /\ results' = [years_processed |-> <<>>, article_1_found |-> <<>>,
                           comparison_articles_found |-> <<>>, errors |-> <<>>]
            /\ remaining_years' = sorted(years)
            /\ dpc' = "years"
            /\ UNCHANGED overall_results
    /\ UNCHANGED <<journal_keys, years, LocatorCollectorVars, FetcherVars, CrossrefVars>>

\* One iteration of the year loop of process_journal_years.
ProcessYear(outcome) ==
    /\ dpc = "years"
    /\ remaining_years # <<>>
    /\ LET y == Head(remaining_years)
           article_1_success == outcome \in {"both", "article_1_only"}
           comparison_success == outcome = "both"
       IN
        /\ IF outcome = "raised"
           THEN results' = [results EXCEPT !.errors = Append(@, y)]
           ELSE results' =
                   [results EXCEPT
                       !.article_1_found = (y :> article_1_success) @@ @,
                       !.comparison_articles_found = (y :> comparison_success) @@ @,
                       !.years_processed =
                           IF article_1_success /\ comparison_success THEN Append(@, y) ELSE @]
        /\ attempted' = Append(attempted, [year |-> y, outcome |-> outcome])
    /\ remaining_years' = loop_rest(remaining_years)
    /\ UNCHANGED <<journal_keys, years, dpc, journal_pos, overall_results,
                   LocatorCollectorVars, FetcherVars, CrossrefVars>>

\* process_journal_years returns; process_multiple_journals books the journal.
FinishJournal ==
    /\ dpc = "years"
    /\ remaining_years = <<>>
    /\ LET journal_key == journal_keys[journal_pos]
           years_count == Len(results.years_processed)
       IN overall_results' =
            [overall_results EXCEPT
                !.journal_results = (journal_key :> results) @@ @,
                !.journals_processed = IF years_count > 0 THEN Append(@, journal_key) ELSE @,
                !.total_articles_downloaded =
                    @ + years_count * (MIN_ARTICLES_FOR_COMPARISON + 1),
                !.total_errors = @ \o results.errors]
    /\ dpc' = "journals"
    /\ UNCHANGED <<journal_keys, years, journal_pos, remaining_years, results, attempted,
                   LocatorCollectorVars, FetcherVars, CrossrefVars>>

\* return overall_results
FinishRun ==
    /\ dpc = "journals"
    /\ journal_pos = Len(journal_keys)
    /\ dpc' = "exit"
    /\ UNCHANGED <<journal_keys, years, journal_pos, remaining_years, results,
                   overall_results, attempted, LocatorCollectorVars, FetcherVars, CrossrefVars>>

NextDriver ==
    \/ StartJournal
    \/ \E outcome \in Outcomes : ProcessYear(outcome)
    \/ FinishJournal
    \/ FinishRun

SpecDriver == InitDriver /\ [][NextDriver]_vars

\* ------------------------------------------------------------ Crossref offset pagination
\* batch_size = 1000 ('rows': batch_size)
rows == 1000
\* while offset < 9000
offset_limit == 9000
\* CROSSREF_MAX_RETRIES
CROSSREF_MAX_RETRIES == 3

\* What the server answers to one HTTP request: a 200 whose body has a
\* 'message', a 200 whose body has none, a 429, another status, or a
\* transport error.
CrossrefStatuses == {"200", "200_no_message", "429", "500", "exception"}
CrossrefResponseSeqs == [1..CROSSREF_MAX_RETRIES -> CrossrefStatuses]

\* How many items a page can hold ('items' of the message): the server may
\* also return more than the rows asked for.
WorksLens == {0, 1, rows - 1, rows, rows + 1}

\* CrossrefJournalClient._make_request: for attempt in range(self.max_retries);
\* a 200 returns the body, everything else is tried again and gives None
\* after the last attempt.
RECURSIVE crossref_make_request(_, _)
crossref_make_request(responses, attempt) ==
    IF attempt > CROSSREF_MAX_RETRIES
    THEN [attempts |-> CROSSREF_MAX_RETRIES, data |-> "None"]
    ELSE IF responses[attempt] \in {"200", "200_no_message"}
         THEN [attempts |-> attempt, data |-> responses[attempt]]
         ELSE crossref_make_request(responses, attempt + 1)

\* (variant: the loop condition admits the limit itself)
within_offset_limit_Inclusive(current_offset) == current_offset <= offset_limit

\* while offset < 9000
within_offset_limit(current_offset) == current_offset < offset_limit

LocatorCollectorIdle ==
    /\ year = 0 /\ start_month = 0 /\ start_day = 0 /\ catalog = <<>>
    /\ pc = "idle" /\ idx = 0 /\ current_month = 0 /\ current_day = 0
    /\ cached_articles = <<>> /\ article_1 = None /\ reference_date = NoDate
    /\ probes = <<>> /\ fetched = <<>>
    /\ min_articles = 0 /\ all_articles = <<>> /\ articles_on_target_day = 0
    /\ end_search_date = NoDate /\ calls = <<>>

InitCrossref ==
    /\ CrossrefIdle
    /\ LocatorCollectorIdle
    /\ FetcherIdle
    /\ DriverIdle

\* _collect_date_range is called for a window: articles = [], offset = 0,
\* and the loop condition is evaluated.
EnterCollectDateRange ==
    /\ cpc \in {"idle", "returned"}
    /\ offset' = 0
    /\ crossref_articles' = 0
    /\ page_requests' = 0
    /\ last_request' = NoRequest
    /\ cpc' = IF within_offset_limit(0) THEN "paging" ELSE "returned"
    /\ UNCHANGED <<LocatorCollectorVars, FetcherVars, DriverVars>>

\* One iteration of the while loop: the page at the current offset is
\* requested; the answer holds `works` items, of which all or all but one
\* yield metadata.
RequestWorks(responses) ==
    /\ cpc = "paging"
    /\ LET out == crossref_make_request(responses, 1) IN
       \E works \in (IF out.data = "200" THEN WorksLens ELSE {0}) :
       \E dropped \in (IF works > 0 THEN {0, 1} ELSE {0}) :
        LET goes_on == out.data = "200" /\ works # 0 /\ works >= rows IN
        /\ page_requests' = page_requests + 1
        /\ last_request' = [offset |-> offset, attempts |-> out.attempts,
                            data |-> out.data, works |-> works]
        /\ crossref_articles' = crossref_articles + works - dropped
        /\ offset' = offset + works
        /\ cpc' = IF goes_on /\ within_offset_limit(offset + works) THEN "paging" ELSE "returned"
    /\ UNCHANGED <<LocatorCollectorVars, FetcherVars, DriverVars>>

NextCrossref ==
    \/ EnterCollectDateRange
    \/ \E responses \in CrossrefResponseSeqs : RequestWorks(responses)

SpecCrossref == InitCrossref /\ [][NextCrossref]_vars

\* ------------------------------------------------------------ properties
LocatorReturned == pc \notin {"locate", "jan1", "weekly", "february", "monthly", "daybyday"}

\* The regular-year windows in the order of the locator's state machine, as
\* <<MMDD of the first day, MMDD of the last day>>: Jan 2, Jan 1, six weekly
\* windows, the rest of February, March .. December.
RegularOrderCommon ==
    << <<102, 102>>, <<101, 101>>,
       <<103, 109>>, <<110, 116>>, <<117, 123>>, <<124, 131>>, <<201, 207>>, <<208, 214>>,
       <<215, 228>>,
       <<301, 331>>, <<401, 430>>, <<501, 531>>, <<601, 630>>, <<701, 731>>,
       <<801, 831>>, <<901, 930>>, <<1001, 1031>>, <<1101, 1130>>, <<1201, 1231>> >>

RegularOrderLeap == [RegularOrderCommon EXCEPT ![9] = <<215, 229>>]

\* (years 1901 .. 2099: every fourth year is a leap year)
RegularOrder == IF year % 4 = 0 THEN RegularOrderLeap ELSE RegularOrderCommon

NoProbeFound == \A i \in 1..Len(probes) : ~probes[i].found

\* C1: in a regular year the probes follow the fixed order Jan 2, Jan 1, the
\* six weekly windows, then the monthly windows, and they are exactly the
\* prefix of that order ending at the first window whose results hold a
\* record numbered "1": no probe follows such a window, and the locator does
\* not return earlier unless the order is exhausted.
C1_ProbeOrderPrefix ==
    RegularYear =>
        /\ Len(probes) <= Len(RegularOrder)
        /\ \A i \in 1..Len(probes) :
              /\ i <= Len(RegularOrder)
              /\ probes[i].start_date = year * 10000 + RegularOrder[i][1]
              /\ probes[i].end_date = year * 10000 + RegularOrder[i][2]
        /\ \A i \in 1..(Len(probes) - 1) : ~probes[i].found
        /\ (probes # <<>> /\ probes[Len(probes)].found) => LocatorReturned
        /\ LocatorReturned =>
              \/ probes # <<>> /\ probes[Len(probes)].found
              \/ Len(probes) = Len(RegularOrder)

\* "1" first in week 3 (Jan 17-23): exactly 5 probes, then FOUND.
C1_Witness ==
    /\ RegularYear
    /\ pc = "located"
    /\ Len(probes) = 5
    /\ probes[5].found
    /\ probes[5].start_date = year * 10000 + 117
    /\ article_1 # None

\* C2: first found wins: when the Jan 2 probe returns a record numbered "1",
\* the locator returns that occurrence with the date YYYY-01-02, whatever
\* later windows hold.
C2_FirstFoundWins ==
    (RegularYear /\ LocatorReturned /\ probes[1].found) =>
        /\ IsNumber1(article_1)
        /\ article_1.online = year * 10000 + 102
        /\ reference_date = year * 10000 + 102
        /\ Len(probes) = 1

\* A source with "1" on Jan 2 and again on a later day; the Jan 2 one is returned.
C2_Witness ==
    /\ RegularYear
    /\ pc = "located"
    /\ \E i, j \in 1..Len(catalog) :
          /\ IsNumber1(catalog[i]) /\ catalog[i].online = year * 10000 + 102
          /\ IsNumber1(catalog[j]) /\ catalog[j].online > year * 10000 + 102
    /\ probes[1].found
    /\ article_1.online = year * 10000 + 102

\* C3 (as claimed): in a regular year the locator executes at most
\* 2 + 6 + 10 = 18 window probes.
C3_AtMost18Probes == RegularYear => Len(probes) <= 18

\* C3 (amended): in a regular year the locator executes at most
\* 2 + 6 + 1 + 10 = 19 window probes: the rest of February is a probe of its
\* own between the weekly windows and March.
C3_AtMost19Probes == RegularYear => Len(probes) <= 19

C3_Witness ==
    /\ RegularYear
    /\ pc = "located"
    /\ Len(probes) = 19
    /\ article_1 = None

RECURSIVE Contains(_, _)
Contains(s, a) == s # <<>> /\ (Head(s) = a \/ Contains(Tail(s), a))

\* C4: whenever the locator returns a record, the record is numbered "1",
\* the returned cache contains it, and the returned date is not null.
C4_ReturnedRecord ==
    (LocatorReturned /\ article_1 # None) =>
        /\ IsNumber1(article_1)
        /\ Contains(cached_articles, article_1)
        /\ reference_date # NoDate

\* C5: in a regular year in which no window returns a record numbered "1",
\* the locator runs through the December window and then returns
\* (None, None, cache); it does not return before December.
C5_NotFound ==
    (RegularYear /\ LocatorReturned /\ NoProbeFound) =>
        /\ article_1 = None
        /\ reference_date = NoDate
        /\ Len(probes) = 19
        /\ probes[Len(probes)].start_date = year * 10000 + 1201
        /\ probes[Len(probes)].end_date = year * 10000 + 1231
        /\ cached_articles = fetched

\* NOT_FOUND after December, with records in the cache.
C5_Witness ==
    /\ RegularYear
    /\ pc = "done"
    /\ NoProbeFound
    /\ article_1 = None
    /\ cached_articles # <<>>
    /\ probes[Len(probes)].end_date = year * 10000 + 1231

\* C6: the cache the locator returns is the concatenation, in encounter
\* order, of the results of every probe it executed, in regular and
\* inaugural years alike.
C6_CacheHoldsEveryProbe == LocatorReturned => cached_articles = fetched

\* The seed set of a collect call: the cache records dated on or after the
\* date of Article #1.
SeedSet == SelectSeq(cached_articles, LAMBDA a : a.publication_date >= reference_date)

Collecting == pc \in {"targetday", "estimate", "restofyear", "weekscan", "raised", "returned"}

\* C7: when the seed set already has min_articles records, the collector
\* issues no paginator call and returns the whole seed set.
C7_CacheReuse ==
    (Collecting /\ Len(SeedSet) >= min_articles) =>
        /\ pc = "returned"
        /\ calls = <<>>
        /\ all_articles = SeedSet

\* A seed set larger than min_articles, returned whole and without a call.
C7_Witness ==
    /\ pc = "returned"
    /\ Len(SeedSet) > min_articles
    /\ calls = <<>>
    /\ Len(all_articles) = Len(SeedSet)

\* C8: the cohort returned by the collector holds no record numbered "1".
C8_CohortExcludesArticle1 ==
    pc = "returned" => \A i \in 1..Len(all_articles) : ~IsNumber1(all_articles[i])

\* C9: the cohort returned by the collector holds no DOI twice.
C9_CohortDistinctDois ==
    pc = "returned" =>
        \A i, j \in 1..Len(all_articles) :
            all_articles[i].doi = all_articles[j].doi => i = j

\* The source answers a window query only with records dated inside the
\* window: every record's publication_date is the date it is filed under.
SourceDatesInWindow ==
    \A i \in 1..Len(catalog) : catalog[i].publication_date = catalog[i].online

\* C10: with such a source, every member of the returned cohort is dated on
\* or after the date of Article #1.
C10_CohortNotBeforeArticle1 ==
    (pc = "returned" /\ SourceDatesInWindow) =>
        \A i \in 1..Len(all_articles) : all_articles[i].publication_date >= reference_date

\* A cohort with a member brought by a fetch after the target date.
C10_Witness ==
    /\ pc = "returned"
    /\ SourceDatesInWindow
    /\ Len(calls) >= 2
    /\ Len(all_articles) > Len(SeedSet)
    /\ \E i \in 1..Len(all_articles) : all_articles[i].publication_date > reference_date

\* ------------------------------------------------------------ collector calls
CallsOfKind(kind) == SelectSeq(calls, LAMBDA c : c.kind = kind)

\* C15 (as stated): one collect call makes at most 1 + 1 + 1 + 52 = 55
\* paginator calls, at most 52 of them windows of the week-by-week fallback.
C15_AtMost55Calls ==
    /\ Len(calls) <= 55
    /\ Len(CallsOfKind("week")) <= 52

\* C15 (amended): one collect call makes at most 1 + 60 = 61 paginator calls,
\* at most 60 of them windows of the week-by-week fallback (the windows are cut
\* at the month ends, up to five a month), and at most 3 when the estimated
\* range is used.
C15_AtMost61Calls ==
    /\ Len(calls) <= 61
    /\ Len(CallsOfKind("week")) <= 60
    /\ Len(CallsOfKind("target_day")) <= 1
    /\ CallsOfKind("estimated") # <<>> => Len(calls) <= 3

\* The fallback run from January 2 of a leap year to December 31.
C15_Witness ==
    /\ pc = "returned"
    /\ Len(calls) = 61
    /\ Len(CallsOfKind("week")) = 60

\* A date of the processed year that exists in the calendar.
InYear(date) ==
    /\ year_val(date) = year
    /\ month_val(date) \in 1..12
    /\ day_val(date) \in 1..monthrange(year, month_val(date))

\* C17: every window the locator or the collector submits starts on or before
\* the day it ends, and both days are dates of the processed year.
C17_WindowsInsideYear ==
    /\ \A i \in 1..Len(probes) :
           /\ probes[i].start_date <= probes[i].end_date
           /\ InYear(probes[i].start_date) /\ InYear(probes[i].end_date)
    /\ \A i \in 1..Len(calls) :
           /\ calls[i].start_date <= calls[i].end_date
           /\ InYear(calls[i].start_date) /\ InYear(calls[i].end_date)

\* A leap year whose December window was probed and whose estimated range
\* was cut at December 31.
C17_Witness ==
    /\ isleap(year)
    /\ \E i \in 1..Len(probes) :
           probes[i].start_date = DateStr(year, 12, 1) /\ probes[i].end_date = DateStr(year, 12, 31)
    /\ \E i \in 1..Len(calls) :
           /\ calls[i].kind = "estimated"
           /\ calls[i].end_date = DateStr(year, 12, 31)
           /\ ToOrdinal(year, month_val(calls[i].start_date), day_val(calls[i].start_date)) + 30
                  > DaysInYear(year)

\* The collector is past the point where it uses the estimated range.
EstimateBranchTaken ==
    /\ articles_on_target_day > 0
    /\ pc \in {"restofyear", "returned", "raised"}

\* C19: with r > 0 articles observed on the target date and n = max(0, min -
\* held) still needed, exactly one estimated-range call is issued; its window
\* starts the day after the target date and spans max(30, ceil(n / r)) + 1
\* days, cut at December 31.
C19_EstimatedRange ==
    EstimateBranchTaken =>
        LET est == CallsOfKind("estimated") IN
        /\ Len(est) = 1
        /\ LET r == articles_on_target_day
               n == IF min_articles > est[1].before THEN min_articles - est[1].before ELSE 0
               ceil == IF n % r = 0 THEN n \div r ELSE n \div r + 1
               needed_days == (IF ceil > 30 THEN ceil ELSE 30) + 1
               first == ToOrdinal(year, month_val(reference_date), day_val(reference_date)) + 1
               last == IF first + needed_days - 1 > DaysInYear(year)
                       THEN DaysInYear(year) ELSE first + needed_days - 1
           IN
            /\ first <= DaysInYear(year)
            /\ est[1].start_date = OrdinalStr(year, first)
            /\ est[1].end_date = OrdinalStr(year, last)

DayByDayProbes == IF probes = <<>> THEN 0 ELSE Len(probes) - 1

\* C16: the day-by-day scan of an inaugural year makes at most 31 + 28 = 59
\* single-day probes, whatever the start date.
C16_AtMost59DayProbes ==
    ~(start_month = 1 /\ start_day = 1) => DayByDayProbes <= 59

\* ------------------------------------------------------------ year loop
CountYear(log, y) == Cardinality({i \in 1..Len(log) : log[i].year = y})
CountIn(s, y) == Cardinality({i \in 1..Len(s) : s[i] = y})
YearValues == {years[i] : i \in 1..Len(years)}

\* The years attempted so far whose outcome is one of the given, in the
\* order of the attempts.
RECURSIVE YearsOf(_, _)
YearsOf(log, outcomes) ==
    IF log = <<>> THEN <<>>
    ELSE (IF Head(log).outcome \in outcomes THEN <<Head(log).year>> ELSE <<>>)
         \o YearsOf(Tail(log), outcomes)
YearsWith(outcomes) == YearsOf(attempted, outcomes)

\* C18: every year of the list is attempted exactly once, in ascending order;
\* a year that is not found or that raises stops neither the later years nor
\* the later journals, and leaves its trace only in the results.
C18_EveryYearAttempted ==
    /\ \A i, j \in 1..Len(attempted) : i < j => attempted[i].year <= attempted[j].year
    /\ dpc = "years" =>
           /\ \A y \in YearValues :
                  CountYear(attempted, y) + CountIn(remaining_years, y) = CountIn(years, y)
           /\ \A i \in 1..Len(remaining_years) :
                  attempted # <<>> => attempted[Len(attempted)].year <= remaining_years[i]
           /\ results.errors = YearsWith({"raised"})
           /\ results.years_processed = YearsWith({"both"})
           /\ DOMAIN results.article_1_found =
                  {attempted[i].year : i \in {k \in 1..Len(attempted) : attempted[k].outcome # "raised"}}
    /\ (dpc \in {"journals", "exit"} /\ journal_pos > 0) =>
           /\ \A y \in YearValues : CountYear(attempted, y) = CountIn(years, y)
           /\ Len(attempted) = Len(years)
    /\ dpc = "exit" =>
           /\ journal_pos = Len(journal_keys)
           /\ years # <<>> =>
                  \A k \in 1..Len(journal_keys) :
                      journal_keys[k] \in DOMAIN overall_results.journal_results

\* A run of two journals that ended after a year that raised and a year
\* without Article #1 were followed by a year that succeeded.
C18_Witness ==
    /\ dpc = "exit"
    /\ Len(journal_keys) = 2
    /\ Len(attempted) = 3
    /\ attempted[1].outcome = "raised"
    /\ attempted[2].outcome = "none"
    /\ attempted[3].outcome = "both"
    /\ overall_results.total_errors # <<>>

\* ------------------------------------------------------------ page fetcher
\* C11: once a 429 has switched the process from the open-access endpoint to
\* the meta endpoint, every later request of the process run goes to the meta
\* endpoint.
C11_StickyFailover ==
    \A i \in 1..Len(requests) : requests[i].after_switch => requests[i].endpoint = "meta"

RequestsOfCall(c) == {k \in 1..Len(requests) : requests[k].call = c}

\* C12: one _make_request call sends at most two requests; a 429 from the
\* open-access endpoint is followed by exactly one retry of the same query on
\* the meta endpoint, and a 429 from the meta endpoint by none.
C12_AtMostTwoRequests ==
    \A i \in 1..Len(requests) :
        /\ Cardinality(RequestsOfCall(requests[i].call)) <= 2
        /\ (requests[i].status = "429" /\ requests[i].endpoint = "openaccess") =>
               /\ i < Len(requests)
               /\ requests[i + 1].call = requests[i].call
               /\ requests[i + 1].endpoint = "meta"
               /\ requests[i + 1].s = requests[i].s
        /\ (requests[i].status = "429" /\ requests[i].endpoint = "meta") =>
               (i = Len(requests) \/ requests[i + 1].call # requests[i].call)

\* A search has returned to its caller.
SearchReturned == fpc = "ready" /\ window_no > 0

\* The last fetch of the search failed: its last answer was not a page, or
\* the page did not parse.
LastFetchFailed ==
    /\ requests # <<>>
    /\ requests[Len(requests)].status # "200"

C14_PaginatorComplete ==
    (SearchReturned /\ \A i \in 1..Len(requests) : requests[i].status = "200") =>
        window_articles = SelectSeq(window, LAMBDA e : e.doi # 0)

\* ------------------------------------------------------------ collector strategy
\* The collector is expanding a seed set that holds no record dated on the
\* target date.
ExpandingWithoutSameDay ==
    /\ Collecting
    /\ Len(SeedSet) < min_articles
    /\ \A i \in 1..Len(SeedSet) : SeedSet[i].publication_date # reference_date

CollectorFinished == pc \in {"returned", "raised"}

DayAfterTarget == ToOrdinal(year, month_val(reference_date), day_val(reference_date)) + 1

\* The first call is the single-day fetch of the target date, and what it
\* added to the cohort holds no record numbered "1".
FirstCallIsTargetDay ==
    /\ calls # <<>>
    /\ calls[1].kind = "target_day"
    /\ calls[1].start_date = reference_date
    /\ calls[1].end_date = reference_date
    /\ calls[1].before = Len(SeedSet)
    /\ \A i \in (calls[1].before + 1)..(calls[1].before + calls[1].got) :
           ~IsNumber1(all_articles[i])

\* The call through December 31 after the estimated range calls[2].
ThirdCallIsRestOfYear ==
    /\ calls[3].kind = "rest_of_year"
    /\ ToOrdinal(year, month_val(calls[3].start_date), day_val(calls[3].start_date))
           = ToOrdinal(year, month_val(calls[2].end_date), day_val(calls[2].end_date)) + 1
    /\ calls[3].end_date = DateStr(year, 12, 31)

OrdinalOf(date) == ToOrdinal(year, month_val(date), day_val(date))
WindowDays(c) == OrdinalOf(c.end_date) - OrdinalOf(c.start_date) + 1
IsWeek(i) == calls[i].kind = "week"

\* The day after a date of the year; January 1 of the next year after December 31.
NextDay(date) ==
    IF day_val(date) < monthrange(year, month_val(date)) THEN date + 1
    ELSE IF month_val(date) < 12 THEN DateStr(year, month_val(date) + 1, 1)
    ELSE DateStr(year + 1, 1, 1)

\* The windows of the fallback follow the fetch of the target date and one
\* another, from the day after the target date, and none is requested once
\* the cohort has min_articles.
WeekWindowsConsecutive ==
    /\ \A i \in 1..Len(calls) :
           IsWeek(i) =>
               /\ i >= 2
               /\ calls[i - 1].kind \in {"target_day", "week"}
               /\ calls[i].start_date =
                      IF IsWeek(i - 1) THEN NextDay(calls[i - 1].end_date)
                      ELSE NextDay(reference_date)
               /\ calls[i].start_date <= calls[i].end_date
               /\ calls[i].before < min_articles
    /\ (pc = "returned" /\ calls # <<>>
          /\ calls[1].kind = "target_day" /\ calls[1].got = 0
          /\ Len(all_articles) < min_articles /\ DayAfterTarget <= DaysInYear(year)) =>
           /\ IsWeek(Len(calls))
           /\ calls[Len(calls)].end_date = DateStr(year, 12, 31)

\* C22 (as stated): the windows of the week-by-week fallback are consecutive
\* 7-day windows from the day after the target date through December 31,
\* only the last one shorter, and none is requested once the cohort has
\* reached min_articles.
C22_SevenDayWindows ==
    /\ WeekWindowsConsecutive
    /\ \A i \in 1..Len(calls) :
           IsWeek(i) =>
               /\ WindowDays(calls[i]) <= 7
               /\ i < Len(calls) => WindowDays(calls[i]) = 7

\* C22 (amended): the windows of the week-by-week fallback are consecutive
\* windows of at most 7 days from the day after the target date through
\* December 31, none crossing a month end (the last window of a month is the
\* shorter one), and none is requested once the cohort has reached
\* min_articles.
C22_WeekWindowsWithinMonths ==
    /\ WeekWindowsConsecutive
    /\ \A i \in 1..Len(calls) :
           IsWeek(i) =>
               /\ month_val(calls[i].start_date) = month_val(calls[i].end_date)
               /\ calls[i].end_date - calls[i].start_date + 1 <= 7
               /\ calls[i].end_date - calls[i].start_date + 1 < 7 =>
                      day_val(calls[i].end_date) = monthrange(year, month_val(calls[i].end_date))

\* A fallback that crossed the end of January with a two-day window and
\* stopped in February, when the cohort had reached min_articles.
C22_Witness ==
    /\ pc = "returned"
    /\ Len(calls) >= 7
    /\ IsWeek(6) /\ WindowDays(calls[6]) = 2
    /\ IsWeek(7) /\ WindowDays(calls[7]) = 7
    /\ Len(all_articles) >= min_articles
    /\ calls[Len(calls)].end_date < DateStr(year, 12, 31)

\* ------------------------------------------------------------ queries
\* The windows submitted so far, by the locator and by the collector.
SubmittedWindows ==
    {<<probes[i].start_date, probes[i].end_date>> : i \in 1..Len(probes)}
        \cup {<<calls[i].start_date, calls[i].end_date>> : i \in 1..Len(calls)}

\* The queries the client builds for a window: the date-range query, and the
\* single-day query when the window is one day.
QueriesFor(w) ==
    {range_params(w[1], w[2])}
        \cup (IF w[1] = w[2]
              THEN {date_params(year_val(w[1]), month_val(w[1]), day_val(w[1]))}
              ELSE {})

\* The date filter of the query is the inclusive range of the window.
FilterMatches(query, w) ==
    /\ query.sort = "date"
    /\ query.datefrom = w[1]
    /\ query.dateto = w[2]

C23_OneDelayPerFetch ==
    \A i \in 1..Len(requests) :
        Cardinality({k \in RequestsOfCall(requests[i].call) : requests[k].slept}) = 1

FetchCalls == IF requests = <<>> THEN 0 ELSE requests[Len(requests)].call

\* The last request of fetch call c, whose answer is what the call returns.
LastRequestOf(c) == CHOOSE k \in RequestsOfCall(c) : \A j \in RequestsOfCall(c) : j <= k

\* The records fetch call c brought: those of the page at its start
\* position that have a DOI, or none if the fetch failed.
RecordsOf(c) ==
    IF requests[LastRequestOf(c)].status = "200"
    THEN SelectSeq(WindowPage(window, requests[LastRequestOf(c)].s), LAMBDA e : e.doi # 0)
    ELSE <<>>

RECURSIVE RecordsUpTo(_)
RecordsUpTo(c) == IF c = 0 THEN <<>> ELSE RecordsUpTo(c - 1) \o RecordsOf(c)

\* C25: within one window the start positions requested are 1, 1 + B,
\* 1 + 2B, ...; the loop stops after the first page that is empty, has fewer
\* than B records or whose fetch failed, and the search returns the records
\* of the pages fetched, in fetch order, the short last page included and
\* the records fetched before a failure kept.
C25_PagesInOrder ==
    /\ \A i \in 1..Len(requests) : requests[i].s = 1 + (requests[i].call - 1) * page_size
    /\ \A i \in 1..(Len(requests) - 1) : requests[i + 1].call \in {requests[i].call, requests[i].call + 1}
    /\ \A c \in 1..(FetchCalls - 1) : Len(RecordsOf(c)) = page_size
    /\ (fpc = "paging" /\ FetchCalls > 0) => Len(RecordsOf(FetchCalls)) = page_size
    /\ (fpc = "ready" /\ FetchCalls > 0) => Len(RecordsOf(FetchCalls)) < page_size
    /\ fpc = "ready" => requests = <<>> \/ window_no > 0
    /\ window_articles = RecordsUpTo(FetchCalls)

\* A search that returned a full page and a short second page.
C25_Witness ==
    /\ SearchReturned
    /\ FetchCalls = 2
    /\ Len(RecordsOf(2)) \in 1..(page_size - 1)
    /\ Len(window_articles) = page_size + Len(RecordsOf(2))

\* C30: every request pairs the open-access endpoint with the open-access
\* key and the meta endpoint with the meta key, and no request goes to the
\* open-access endpoint once use_openaccess is false.
C30_EndpointKeyPairing ==
    \A i \in 1..Len(requests) :
        /\ requests[i].endpoint = "openaccess" =>
               /\ requests[i].api_key = api_key_openaccess
               /\ requests[i].use_openaccess
        /\ requests[i].endpoint = "meta" => requests[i].api_key = api_key_meta

\* ------------------------------------------------------------ Crossref offset cap
\* C26: _collect_date_range never requests a page at an offset of 9000 or
\* more and so makes at most 9 page requests per window, each tried at most
\* CROSSREF_MAX_RETRIES times; the loop goes on only after a page that was
\* fetched and held at least 1000 items, so it stops at the first failed,
\* empty or short page.
C26_OffsetCapped ==
    /\ page_requests <= 9
    /\ page_requests > 0 =>
           /\ last_request.offset >= 0
           /\ last_request.offset < 9000
           /\ last_request.attempts \in 1..CROSSREF_MAX_RETRIES
    /\ (cpc = "paging" /\ page_requests > 0) =>
           /\ last_request.data = "200"
           /\ last_request.works >= 1000
    /\ cpc = "paging" => offset < 9000
    /\ (cpc = "returned" /\ last_request.data = "200" /\ last_request.works >= 1000) =>
           offset >= 9000

\* A window read to the cap: nine full pages, the last at offset 8000, and
\* the loop left although that page was full.
C26_Witness ==
    /\ cpc = "returned"
    /\ page_requests = 9
    /\ last_request = [offset |-> 8000, attempts |-> 3, data |-> "200", works |-> 1000]
    /\ offset = 9000

\* ------------------------------------------------------------ coverage of the year
\* The number of days in the window of probe i.
ProbeDays(i) == OrdinalOf(probes[i].end_date) - OrdinalOf(probes[i].start_date) + 1

RECURSIVE ProbedDays(_)
\* The days in the windows of the first n probes, counted per window.
ProbedDays(n) == IF n = 0 THEN 0 ELSE ProbedDays(n - 1) + ProbeDays(n)

\* Once the locator has probed all its windows, they lie within the year,
\* no two of them share a day and together they hold as many days as the
\* year has: every day of the year lies in exactly one of them.
WindowsPartitionYear ==
    (RegularYear /\ Len(probes) = 19) =>
        /\ \A i \in 1..19 :
               /\ year_val(probes[i].start_date) = year
               /\ year_val(probes[i].end_date) = year
               /\ probes[i].start_date <= probes[i].end_date
        /\ \A i, j \in 1..19 :
               i # j => \/ probes[i].end_date < probes[j].start_date
                        \/ probes[j].end_date < probes[i].start_date
        /\ ProbedDays(19) = DaysInYear(year)

\* C27: the windows of a regular year are pairwise disjoint and cover every
\* day of the year; hence, when every fetch succeeds and the source holds a
\* record numbered "1" for the year, the locator returns a record.
C27_CoveredHenceFound ==
    /\ WindowsPartitionYear
    /\ (/\ RegularYear
        /\ LocatorReturned
        /\ \E i \in 1..Len(catalog) : IsNumber1(catalog[i]) /\ catalog[i].doi # 0)
       => IsNumber1(article_1)

\* ------------------------------------------------------------ inaugural scan
InauguralYear == ~(start_month = 1 /\ start_day = 1)

\* The days from the configured start date to December 31.
DaysFromStart == DaysInYear(year) - ToOrdinal(year, start_month, start_day) + 1

\* The newest probe is of a day no earlier probe was made for.
LastProbeIsNewDay ==
    \A i \in 1..(Len(probes) - 1) : probes[i].start_date # probes[Len(probes)].start_date

\* A scan that ran to its end without a hit has probed every day from the
\* start date on.
ScanProbedEveryDay ==
    (LocatorReturned /\ article_1 = None) =>
        Cardinality({probes[i].start_date : i \in 1..Len(probes)}) = DaysFromStart

\* No probe lost a record to a failed fetch.
NoRecordLost ==
    \A i \in 1..Len(probes) : \A k \in 1..Len(catalog) :
        catalog[k].online = probes[i].start_date =>
            \E j \in 1..Len(fetched) : fetched[j] = catalog[k]

\* C28: in an inaugural year every calendar day from the start date to the
\* end of the scan is probed exactly once; hence, when every fetch succeeds
\* and the source holds a record numbered "1" on or after the start date,
\* the locator returns it.
C28_EveryDayOnce ==
    InauguralYear =>
        /\ LastProbeIsNewDay
        /\ ScanProbedEveryDay
        /\ (/\ LocatorReturned
            /\ NoRecordLost
            /\ \E k \in 1..Len(catalog) :
                   /\ IsNumber1(catalog[k])
                   /\ catalog[k].online >= DateStr(year, start_month, start_day))
           => IsNumber1(article_1)

\* ------------------------------------------------------------ day after the target date
\* C29: collect_comparison_articles returns a list without raising for
\* every target date, the last day of a month and December 31 included,
\* when it computes the day after the target date for the estimated range.
C29_CollectNeverRaises ==
    (reference_date # NoDate /\ Collecting /\ articles_on_target_day > 0) => pc # "raised"

====
